---- MODULE Spec2Model ----
(***************************************************************************)
(* A model of openslide/deepzoom.py: DeepZoomGenerator.                    *)
(*                                                                         *)
(* The generator wraps a slide object (osr) that reports, per layer, its   *)
(* pixel dimensions and its downsample.  The constructor derives the Deep  *)
(* Zoom level hierarchy; get_tile maps a (level, (col, row)) address to    *)
(* the arguments of one osr.read_region call and the final tile size.      *)
(*                                                                         *)
(* Pairs (x, y) are sequences of length 2.  Python sequences are 0-based,  *)
(* TLA+ sequences 1-based: level k of the code is element k + 1 here.      *)
(* The floats of the code are IEEE 754 doubles; they are computed here     *)
(* with the rounding of each operation (see "Python floats" below).  The   *)
(* layer downsamples explored are whole numbers, powers of two or not.     *)
(*                                                                         *)
(* Spec is one caller making its calls one after the other, each call one  *)
(* step.  SharedSpec is one generator shared by concurrent readers, with   *)
(* get_tile taken statement group by statement group.                      *)
(***************************************************************************)
EXTENDS Integers, Sequences, FiniteSets, TLC

\* Bounds of the explored inputs.
MaxDim == 6
MaxTileSize == 2
MaxOverlap == 2
MaxLayerDownsample == 3
MaxCalls == 2

VARIABLES
    pc,                 \* "loop": inside __init__'s while loop; "ready": constructed
    osr,                \* the wrapped slide object
    _z_t_downsample,    \* self._z_t_downsample (tile_size)
    _z_overlap,         \* self._z_overlap
    _l_dimensions,      \* self._l_dimensions
    _l0_dimensions,     \* self._l0_dimensions
    z_size,             \* __init__'s local z_size
    z_dimensions,       \* __init__'s local z_dimensions (finest first)
    _z_dimensions,      \* self._z_dimensions (coarsest first)
    _t_dimensions,      \* self._t_dimensions
    _levels,            \* self._levels
    _layer_from_level,  \* self._layer_from_level
    _l0_l_downsamples,  \* self._l0_l_downsamples
    _l_z_downsamples,   \* self._l_z_downsamples, doubles
    _bg_color,          \* self._bg_color
    call,               \* the most recent public call and its arguments
    result,             \* what that call returned, raised and asked of osr
    calls,              \* history: the number of public calls made so far
    built,              \* history: self as __init__ left it
    readers             \* per concurrent reader: its call in progress, the
                        \* locals of that call, and what it returned

self == <<_z_t_downsample, _z_overlap, _l_dimensions, _l0_dimensions,
          _z_dimensions, _t_dimensions, _levels, _layer_from_level,
          _l0_l_downsamples, _l_z_downsamples, _bg_color>>

vars == <<pc, osr, z_size, z_dimensions, self, call, result, calls, built,
          readers>>

----------------------------------------------------------------------------
\* Arithmetic of the Python expressions used by the code.

Min(a, b) == IF a <= b THEN a ELSE b

Max(a, b) == IF a >= b THEN a ELSE b

\* math.ceil(n / d) under true division, d > 0.
Ceil(n, d) == -((-n) \div d)

\* math.floor(n / d), d > 0.
Floor(n, d) == n \div d

\* int(n / d) on a float: truncation toward zero.
IntTrunc(n, d) == IF n >= 0 THEN n \div d ELSE -((-n) \div d)

\* 2 ** k, 1 for a k below 0
Pow2(k) == IF k <= 0 THEN 1 ELSE 2 ^ k

\* reversed(seq)
Reverse(s) == [i \in 1..Len(s) |-> s[Len(s) + 1 - i]]

\* sum(f[i] for i in 1..n)
RECURSIVE SumTo(_, _)
SumTo(f, n) == IF n = 0 THEN 0 ELSE f[n] + SumTo(f, n - 1)

----------------------------------------------------------------------------
\* Python floats: IEEE 754 doubles, each operation rounded to the nearest
\* double, ties to the even mantissa.
\*
\* Every float of the code comes from one quotient of whole numbers by
\* multiplications with, and subtractions of, whole numbers.  With s the
\* scale at which that quotient was rounded, such a float is a whole
\* multiple of 2^-s, and it is kept as the record [p, c, d, s] that stands
\* for
\*
\*     p / d  -  c / (d * 2^s)
\*
\* the fraction p / d that exact arithmetic gives, less the rounding error
\* met so far, counted in units of 1 / (d * 2^s).  d divides p * 2^s - c.

\* The stored bits of a double's mantissa after the leading one.
MantissaBits == 52

\* floor(log2(q)) for a whole number q > 0.
Log2Floor(q) == CHOOSE b \in 0..30 : q \div Pow2(b) = 1

\* floor(log2(num / den)) for num, den > 0: the exponent of a double.
Binade(num, den) ==
    IF num >= den THEN Log2Floor(num \div den)
    ELSE -(Log2Floor(Ceil(den, num) - 1) + 1)

\* (2 ** e) % m, for e from 0 up to 4 * 26: the product of the residues of
\* four powers of at most 26 bits each.
PowMod2(e, m) ==
    LET chunk(k) == Pow2(Min(k, 26)) % m
    IN  (((chunk(e) * chunk(e - 26)) % m)
            * ((chunk(e - 52) * chunk(e - 78)) % m)) % m

\* What rounding takes off a whole number whose residue modulo 2 * unit is
\* t, to bring it to the nearest multiple of unit, the even one on a tie.
TieToEven(t, unit) ==
    IF 2 * (t % unit) < unit \/ (2 * (t % unit) = unit /\ t < unit)
    THEN t % unit
    ELSE (t % unit) - unit

\* dividend / divisor of two whole numbers, dividend >= 0, divisor > 0, under
\* true division.
float_truediv(dividend, divisor) ==
    IF dividend = 0
    THEN [p |-> 0, c |-> 0, d |-> divisor, s |-> MantissaBits]
    ELSE LET scale == MantissaBits - Binade(dividend, divisor)
         IN  [p |-> dividend,
              c |-> TieToEven(((dividend % (2 * divisor))
                                  * PowMod2(scale, 2 * divisor)) % (2 * divisor),
                              divisor),
              d |-> divisor, s |-> scale]

\* The exponent of the value y stands for: that of y.p / y.d, one less when
\* y.p / y.d is a power of two and the error leaves the value short of it.
float_exponent(y) ==
    LET a == IF y.p < 0 THEN -y.p ELSE y.p
        b == Binade(a, y.d)
    IN  IF /\ a * Pow2(-b) = y.d * Pow2(b)
           /\ (y.p > 0 /\ y.c > 0) \/ (y.p < 0 /\ y.c < 0)
        THEN b - 1 ELSE b

\* The double nearest to the value y stands for.  A whole number (of the
\* sizes met here) is a double, and so is what is left when the fraction
\* cancels (the difference of two doubles that close is exact).  Otherwise
\* g is the number of bits of y * 2^s that do not fit the mantissa; with
\* none the value is a double.
float_round(y) ==
    IF y.p = 0 \/ (y.c = 0 /\ y.p % y.d = 0) THEN y
    ELSE LET g == y.s + float_exponent(y) - MantissaBits
         IN  IF g <= 0 THEN y
             ELSE LET unit == Pow2(g)
                      x    == PowMod2(y.s - g - 1, y.d)
                      w    == (2 * unit * (((y.p % y.d) * x) % y.d) - y.c)
                                  % (2 * unit * y.d)
                  IN  [y EXCEPT !.c = y.c + y.d * TieToEven(w \div y.d, unit)]

\* x * k for a float x and a whole number k (or a float that is one).
float_mul(x, k) == float_round([x EXCEPT !.p = x.p * k, !.c = x.c * k])

\* x - k for a float x and a whole number k.
float_sub(x, k) == float_round([x EXCEPT !.p = x.p - k * x.d])

\* int(x): truncation toward zero.
float_int(x) ==
    IF x.p % x.d # 0 THEN IntTrunc(x.p, x.d)
    ELSE IF x.p > 0 /\ x.c > 0 THEN x.p \div x.d - 1
    ELSE IF x.p < 0 /\ x.c < 0 THEN x.p \div x.d + 1
    ELSE x.p \div x.d

\* math.ceil(x)
float_ceil(x) ==
    IF x.p % x.d # 0 THEN Ceil(x.p, x.d)
    ELSE IF x.c < 0 THEN x.p \div x.d + 1
    ELSE x.p \div x.d

----------------------------------------------------------------------------
\* The slide object: an external collaborator.

\* openslide.PROPERTY_NAME_BACKGROUND_COLOR
PROPERTY_NAME_BACKGROUND_COLOR == "openslide.background-color"

\* The property dictionaries explored, as sets of <<key, value>>: without a
\* background colour, and with one.
Properties == { {}, { <<PROPERTY_NAME_BACKGROUND_COLOR, "abcdef">> } }

\* dict.get(key, default)
get(dict, key, default) ==
    IF \E e \in dict : e[1] = key
    THEN (CHOOSE e \in dict : e[1] = key)[2]
    ELSE default

\* One axis of a coarser layer: the slide stores either the floor or the
\* ceiling of the full dimension over the layer's downsample.
LayerDim(full, ds, up) == IF up THEN Ceil(full, ds) ELSE Max(1, Floor(full, ds))

\* The slide objects explored: one layer, or a second layer of a whole
\* downsample.
Slides ==
    { [layer_dimensions |-> << <<w, h>> >>, layer_downsamples |-> <<1>>,
       properties |-> props] :
        w \in 1..MaxDim, h \in 1..MaxDim, props \in Properties }
    \cup
    { [layer_dimensions |-> << <<w, h>>,
                               <<LayerDim(w, ds, up), LayerDim(h, ds, up)>> >>,
       layer_downsamples |-> <<1, ds>>,
       properties |-> props] :
        w \in 1..MaxDim, h \in 1..MaxDim,
        ds \in 2..MaxLayerDownsample, up \in BOOLEAN, props \in Properties }

\* osr.get_best_layer_for_downsample(d): the coarsest layer whose downsample
\* does not exceed d, layer 0 when there is none.  0-based, as in the code.
\* A slide of a single layer stands for a reader that always answers layer 0.
get_best_layer_for_downsample(o, d) ==
    LET ok == { i \in 1..Len(o.layer_downsamples) : o.layer_downsamples[i] <= d }
    IN  IF ok = {} THEN 0
        ELSE (CHOOSE i \in ok : \A j \in ok : j <= i) - 1

----------------------------------------------------------------------------
\* __init__

NoCall == [op |-> "none"]

NoResult == [status |-> "none"]

\* The threads that may share one generator: two are explored.
Readers == {"a", "b"}

\* A reader that is not inside a call.
Idle == [pc |-> "idle"]

Init ==
    /\ osr \in Slides
    /\ _z_t_downsample \in 1..MaxTileSize
    /\ _z_overlap \in 0..MaxOverlap
    /\ _l_dimensions = osr.layer_dimensions
    /\ _l0_dimensions = osr.layer_dimensions[1]
    /\ z_size = osr.layer_dimensions[1]
    /\ z_dimensions = << osr.layer_dimensions[1] >>
    /\ pc = "loop"
    /\ _z_dimensions = << >>
    /\ _t_dimensions = << >>
    /\ _levels = 0
    /\ _layer_from_level = << >>
    /\ _l0_l_downsamples = << >>
    /\ _l_z_downsamples = << >>
    /\ _bg_color = ""
    /\ call = NoCall
    /\ result = NoResult
    /\ calls = 0
    /\ built = << >>
    /\ readers = [r \in Readers |-> Idle]

\* A variant of halve that rounds the half down.
halve_floor(z) == Max(1, Floor(z, 2))

\* One component of the next coarser level: max(1, int(math.ceil(z / 2))).
halve(z) == Max(1, Ceil(z, 2))

\* One iteration of the while loop.
init_loop ==
    /\ pc = "loop"
    /\ z_size[1] > 1 \/ z_size[2] > 1
    /\ z_size' = <<halve(z_size[1]), halve(z_size[2])>>
    /\ z_dimensions' = Append(z_dimensions, z_size')
    /\ UNCHANGED <<pc, osr, self, call, result, calls, built, readers>>

\* A variant of tiles that counts one tile more than the whole tiles.
tiles_floor_plus_one(z_lim, tile_size) == Floor(z_lim, tile_size) + 1

\* tiles = lambda z_lim: int(math.ceil(z_lim / self._z_t_downsample))
tiles(z_lim, tile_size) == Ceil(z_lim, tile_size)

\* l0_z_downsamples for a hierarchy of n levels (element level + 1).
l0_z_downsamples(n) == [i \in 1..n |-> Pow2(n - (i - 1) - 1)]

\* The loop has ended: the rest of __init__.
init_finish ==
    /\ pc = "loop"
    /\ ~(z_size[1] > 1 \/ z_size[2] > 1)
    /\ \E zd \in {Reverse(z_dimensions)} :
       \E l0z \in {l0_z_downsamples(Len(zd))} :
       \E lfl \in {[i \in 1..Len(zd) |->
                       get_best_layer_for_downsample(osr, l0z[i])]} :
           /\ _z_dimensions' = zd
           /\ _t_dimensions' = [i \in 1..Len(zd) |->
                                 <<tiles(zd[i][1], _z_t_downsample),
                                   tiles(zd[i][2], _z_t_downsample)>>]
           /\ _levels' = Len(zd)
           /\ _layer_from_level' = lfl
           /\ _l0_l_downsamples' = osr.layer_downsamples
           /\ _l_z_downsamples' = [i \in 1..Len(zd) |->
                                    float_truediv(l0z[i],
                                        osr.layer_downsamples[lfl[i] + 1])]
    /\ _bg_color' = "#" \o get(osr.properties, PROPERTY_NAME_BACKGROUND_COLOR,
                                "ffffff")
    /\ pc' = "ready"
    /\ UNCHANGED <<osr, _z_t_downsample, _z_overlap, _l_dimensions,
                   _l0_dimensions, z_size, z_dimensions, call, result, calls,
                   readers>>
    /\ built' = self'

----------------------------------------------------------------------------
\* Coordinate conversions.  A layer coordinate is a float.

\* self._z_t_downsample * t
_z_from_t(t) == _z_t_downsample * t

\* A variant of _l_from_z that converts in the opposite direction.
_l_from_z_inverse(level, z) ==
    float_truediv(z * _l_z_downsamples[level + 1].d,
                  _l_z_downsamples[level + 1].p)

\* self._l_z_downsamples[level] * z
_l_from_z(level, z) == float_mul(_l_z_downsamples[level + 1], z)

\* self._l0_l_downsamples[layer] * l
_l0_from_l(layer, l) == float_mul(l, _l0_l_downsamples[layer + 1])

----------------------------------------------------------------------------
\* _get_tile_info, statement by statement.

\* A variant of the parameter check that accepts t = t_lim.
check_parameters_off_by_one(level, t_location) ==
    IF level < 0 \/ level >= _levels THEN "Invalid level"
    ELSE IF \E i \in 1..2 :
                t_location[i] < 0 \/ t_location[i] > _t_dimensions[level + 1][i]
         THEN "Invalid address"
         ELSE "ok"

\* The parameter check: the error it raises, or "ok".
check_parameters(level, t_location) ==
    IF level < 0 \/ level >= _levels THEN "Invalid level"
    ELSE IF \E i \in 1..2 :
                t_location[i] < 0 \/ t_location[i] >= _t_dimensions[level + 1][i]
         THEN "Invalid address"
         ELSE "ok"

\* A variant of z_overlap_tl that gives the first tile an overlap too.
z_overlap_tl_always(t) == _z_overlap

\* self._z_overlap * int(t != 0)
z_overlap_tl(t) == IF t # 0 THEN _z_overlap ELSE 0

\* A variant of z_overlap_br that takes t_lim for the last index.
z_overlap_br_off_by_one(t, t_lim) == IF t # t_lim THEN _z_overlap ELSE 0

\* self._z_overlap * int(t != t_lim - 1)
z_overlap_br(t, t_lim) == IF t # t_lim - 1 THEN _z_overlap ELSE 0

\* min(self._z_t_downsample, z_lim - self._z_t_downsample * t): the part of a
\* tile that is not overlap.
z_core(t, z_lim) == Min(_z_t_downsample, z_lim - _z_t_downsample * t)

\* One component of the final size of the tile.
tile_z_size(t, z_lim, z_tl, z_br) == z_core(t, z_lim) + z_tl + z_br

\* self._l_from_z(level, z) - z_tl
l_location(level, z, z_tl) == float_sub(_l_from_z(level, z), z_tl)

\* int(self._l0_from_l(layer, l))
l0_location(layer, l) == float_int(_l0_from_l(layer, l))

\* A variant of l_size without the clip at the layer's far edge.
l_size_unclipped(level, l, dz, l_lim) == float_ceil(_l_from_z(level, dz))

\* int(min(math.ceil(self._l_from_z(level, dz)), l_lim - math.ceil(l)))
l_size(level, l, dz, l_lim) ==
    Min(float_ceil(_l_from_z(level, dz)), l_lim - float_ceil(l))

_get_tile_info(level, t_location) ==
    IF check_parameters(level, t_location) # "ok"
    THEN [status |-> check_parameters(level, t_location)]
    ELSE
      LET layer == _layer_from_level[level + 1]
          tl == [i \in 1..2 |-> z_overlap_tl(t_location[i])]
          br == [i \in 1..2 |->
                   z_overlap_br(t_location[i], _t_dimensions[level + 1][i])]
          zs == [i \in 1..2 |->
                   tile_z_size(t_location[i], _z_dimensions[level + 1][i],
                               tl[i], br[i])]
          zl == [i \in 1..2 |-> _z_from_t(t_location[i])]
          ll == [i \in 1..2 |-> l_location(level, zl[i], tl[i])]
      IN  [status |-> "ok",
           args   |-> [location |-> [i \in 1..2 |-> l0_location(layer, ll[i])],
                       layer    |-> layer,
                       size     |-> [i \in 1..2 |->
                                      l_size(level, ll[i], zs[i],
                                             _l_dimensions[layer + 1][i])]],
           z_size |-> zs]

----------------------------------------------------------------------------
\* The public operations.  result.read_region and result.thumbnail list the
\* calls the operation made on the slide and on the tile image.

\* get_tile: _get_tile_info raises before read_region is reached; the image
\* that read_region returns has the size asked for, and is scaled only when
\* that differs from z_size.
get_tile(level, address) ==
    /\ pc = "ready"
    /\ calls < MaxCalls
    /\ calls' = calls + 1
    /\ call' = [op |-> "get_tile", level |-> level, address |-> address]
    /\ \E info \in {_get_tile_info(level, address)} :
           result' =
             IF info.status # "ok"
             THEN [status |-> info.status, read_region |-> << >>,
                   thumbnail |-> << >>]
             ELSE [status |-> "ok", read_region |-> <<info.args>>,
                   thumbnail |-> IF info.args.size # info.z_size
                                 THEN <<info.z_size>> ELSE << >>,
                   z_size |-> info.z_size]
    /\ UNCHANGED <<pc, osr, z_size, z_dimensions, self, built, readers>>

\* A property read or get_dzi: returns value and touches nothing.
returns(op, value) ==
    /\ pc = "ready"
    /\ calls < MaxCalls
    /\ calls' = calls + 1
    /\ call' = [op |-> op]
    /\ result' = [status |-> "ok", read_region |-> << >>, thumbnail |-> << >>,
                  value |-> value]
    /\ UNCHANGED <<pc, osr, z_size, z_dimensions, self, built, readers>>

level_count == returns("level_count", _levels)

level_tiles == returns("level_tiles", _t_dimensions)

level_dimensions == returns("level_dimensions", _z_dimensions)

tile_count ==
    returns("tile_count",
            SumTo([i \in 1.._levels |-> _t_dimensions[i][1] * _t_dimensions[i][2]],
                  _levels))

\* The attributes of the Image element and of its Size child.
get_dzi(format) ==
    returns("get_dzi",
            [TileSize |-> _z_t_downsample, Overlap |-> _z_overlap,
             Format |-> format, Width |-> _l0_dimensions[1],
             Height |-> _l0_dimensions[2]])

\* The addresses tried at a level: every tile of its grid, and one step
\* outside the grid on each side of each axis.
Addresses(level) ==
    IF level < 0 \/ level >= _levels THEN { <<0, 0>> }
    ELSE LET t_lim == _t_dimensions[level + 1]
         IN  { <<c, r>> : c \in 0..t_lim[1] - 1, r \in 0..t_lim[2] - 1 }
             \cup { <<-1, 0>>, <<t_lim[1], 0>>, <<0, -1>>, <<0, t_lim[2]>> }

\* The caller has taken what its call returned: of the call nothing is left
\* but what it did to self.
consume ==
    /\ pc = "ready"
    /\ call # NoCall
    /\ call' = NoCall
    /\ result' = NoResult
    /\ UNCHANGED <<pc, osr, z_size, z_dimensions, self, calls, built, readers>>

----------------------------------------------------------------------------
\* The caller makes its calls one after the other.
Next ==
    \/ init_loop
    \/ init_finish
    \/ /\ call = NoCall
       /\ \/ \E level \in -1.._levels : \E address \in Addresses(level) :
                 get_tile(level, address)
          \/ level_count
          \/ level_tiles
          \/ level_dimensions
          \/ tile_count
          \/ \E format \in {"png", "jpeg"} : get_dzi(format)
    \/ consume

Spec == Init /\ [][Next]_vars

\* The constructor runs to its end: its loop is not abandoned.
InitNext == init_loop \/ init_finish

InitSpec == Init /\ [][InitNext]_vars /\ WF_vars(InitNext)

----------------------------------------------------------------------------
\* One generator shared by concurrent readers, without locking.  A thread
\* may be switched out between any two statements, so a get_tile is taken
\* in steps, each a run of statements of _get_tile_info or get_tile that
\* reads self; the locals a step computes stay with the reader.  A property
\* read or get_dzi is one expression over self and is one step.

\* Reader r is inside a get_tile.
Busy(r) == readers[r].pc \in {"checked", "sized", "planned"}

\* Some other reader is inside a get_tile.
OthersBusy(r) == \E q \in Readers \ {r} : Busy(q)

\* Nothing but the state of the readers changes.
ReadOnly ==
    UNCHANGED <<pc, osr, z_size, z_dimensions, self, call, result, calls, built>>

\* get_tile is entered and _get_tile_info checks the parameters: it raises,
\* or goes on.
get_tile_check(r, level, address) ==
    /\ pc = "ready"
    /\ readers[r].pc = "idle"
    /\ readers' = [readers EXCEPT ![r] =
          IF check_parameters(level, address) # "ok"
          THEN [pc |-> "done", op |-> "get_tile", level |-> level,
                address |-> address,
                result |-> [status |-> check_parameters(level, address),
                            read_region |-> << >>, thumbnail |-> << >>]]
          ELSE [pc |-> "checked", op |-> "get_tile", level |-> level,
                address |-> address]]
    /\ ReadOnly

\* A variant of get_tile_size that computes the top/left overlap of the
\* column in place, in self._z_overlap.
get_tile_size_in_place(r) ==
    /\ readers[r].pc = "checked"
    /\ \E level \in {readers[r].level} : \E t \in {readers[r].address} :
       \E tl \in {[i \in 1..2 |-> z_overlap_tl(t[i])]} :
       \E br \in {[i \in 1..2 |-> z_overlap_br(t[i], _t_dimensions[level + 1][i])]} :
           /\ readers' = [readers EXCEPT ![r] =
                 [pc |-> "sized", op |-> "get_tile", level |-> level,
                  address |-> t,
                  layer |-> _layer_from_level[level + 1],
                  z_overlap_tl |-> tl,
                  z_size |-> [i \in 1..2 |->
                                tile_z_size(t[i], _z_dimensions[level + 1][i],
                                            tl[i], br[i])]]]
           /\ _z_overlap' = tl[1]
    /\ UNCHANGED <<pc, osr, z_size, z_dimensions, _z_t_downsample,
                   _l_dimensions, _l0_dimensions, _z_dimensions, _t_dimensions,
                   _levels, _layer_from_level, _l0_l_downsamples,
                   _l_z_downsamples, _bg_color, call, result, calls, built>>

\* The layer, the overlaps and the final size of the tile.
get_tile_size(r) ==
    /\ readers[r].pc = "checked"
    /\ \E level \in {readers[r].level} : \E t \in {readers[r].address} :
       \E tl \in {[i \in 1..2 |-> z_overlap_tl(t[i])]} :
       \E br \in {[i \in 1..2 |-> z_overlap_br(t[i], _t_dimensions[level + 1][i])]} :
           readers' = [readers EXCEPT ![r] =
               [pc |-> "sized", op |-> "get_tile", level |-> level,
                address |-> t,
                layer |-> _layer_from_level[level + 1],
                z_overlap_tl |-> tl,
                z_size |-> [i \in 1..2 |->
                              tile_z_size(t[i], _z_dimensions[level + 1][i],
                                          tl[i], br[i])]]]
    /\ ReadOnly

\* The location and the size of the read, and the return of _get_tile_info.
get_tile_location(r) ==
    /\ readers[r].pc = "sized"
    /\ \E level \in {readers[r].level} : \E layer \in {readers[r].layer} :
       \E ll \in {[i \in 1..2 |->
                     l_location(level, _z_from_t(readers[r].address[i]),
                                readers[r].z_overlap_tl[i])]} :
           readers' = [readers EXCEPT ![r] =
               [pc |-> "planned", op |-> "get_tile", level |-> level,
                address |-> readers[r].address,
                args |-> [location |-> [i \in 1..2 |-> l0_location(layer, ll[i])],
                          layer    |-> layer,
                          size     |-> [i \in 1..2 |->
                                         l_size(level, ll[i], readers[r].z_size[i],
                                                _l_dimensions[layer + 1][i])]],
                z_size |-> readers[r].z_size]]
    /\ ReadOnly

\* get_tile reads the region, scales the image when its size is not z_size,
\* and returns.  History, kept with the result: overlapped, whether another
\* reader was inside a get_tile at that moment.
get_tile_read(r) ==
    /\ readers[r].pc = "planned"
    /\ readers' = [readers EXCEPT ![r] =
          [pc |-> "done", op |-> "get_tile", level |-> readers[r].level,
           address |-> readers[r].address, overlapped |-> OthersBusy(r),
           result |-> [status |-> "ok", read_region |-> <<readers[r].args>>,
                       thumbnail |-> IF readers[r].args.size # readers[r].z_size
                                     THEN <<readers[r].z_size>> ELSE << >>,
                       z_size |-> readers[r].z_size]]]
    /\ ReadOnly

\* The property reads and get_dzi, as <<operation, value returned>>.
Queries ==
    { <<"level_count", _levels>>,
      <<"level_tiles", _t_dimensions>>,
      <<"level_dimensions", _z_dimensions>>,
      <<"tile_count",
        SumTo([i \in 1.._levels |-> _t_dimensions[i][1] * _t_dimensions[i][2]],
              _levels)>> }
    \cup
    { <<"get_dzi", [TileSize |-> _z_t_downsample, Overlap |-> _z_overlap,
                    Format |-> format, Width |-> _l0_dimensions[1],
                    Height |-> _l0_dimensions[2]]>> : format \in {"png", "jpeg"} }

\* Reader r reads a property or calls get_dzi.
query(r, q) ==
    /\ pc = "ready"
    /\ readers[r].pc = "idle"
    /\ readers' = [readers EXCEPT ![r] =
          [pc |-> "done", op |-> q[1],
           result |-> [status |-> "ok", read_region |-> << >>,
                       thumbnail |-> << >>, value |-> q[2]]]]
    /\ ReadOnly

\* Reader r has taken what its call returned.
take(r) ==
    /\ readers[r].pc = "done"
    /\ readers' = [readers EXCEPT ![r] = Idle]
    /\ ReadOnly

\* The addresses the readers try at a level: the first and the last tile of
\* its grid, and the column just past the grid.
SharedAddresses(level) ==
    IF level < 0 \/ level >= _levels THEN { <<0, 0>> }
    ELSE LET t_lim == _t_dimensions[level + 1]
         IN  { <<0, 0>>, <<t_lim[1] - 1, t_lim[2] - 1>>, <<t_lim[1], 0>> }

\* The generator the readers share is built on a square slide without
\* properties.
SharedInit ==
    /\ Init
    /\ osr.properties = {}
    /\ osr.layer_dimensions[1][1] = osr.layer_dimensions[1][2]

\* The readers run in any interleaving of their steps.
SharedNext ==
    \/ init_loop
    \/ init_finish
    \/ \E r \in Readers :
          \/ \E level \in -1.._levels : \E address \in SharedAddresses(level) :
                 get_tile_check(r, level, address)
          \/ get_tile_size(r)
          \/ get_tile_location(r)
          \/ get_tile_read(r)
          \/ \E q \in Queries : query(r, q)
          \/ take(r)

SharedSpec == SharedInit /\ [][SharedNext]_vars

----------------------------------------------------------------------------
\* Vocabulary of the properties below.

Ready == pc = "ready"

\* The most recent call was a get_tile that returned a tile.
Served == Ready /\ call.op = "get_tile" /\ result.status = "ok"

\* Of a served tile, on axis a: its index, its grid and level dimension, the
\* overlap it is due before and after, the read and the tier read from.
T(a) == call.address[a]

Grid(a) == _t_dimensions[call.level + 1][a]

LevelDim(a) == _z_dimensions[call.level + 1][a]

OverlapBefore(a) == IF T(a) # 0 THEN _z_overlap ELSE 0

OverlapAfter(a) == IF T(a) # Grid(a) - 1 THEN _z_overlap ELSE 0

FinalSize(a) == result.z_size[a]

Read == result.read_region[1]

TierDim(a) == _l_dimensions[Read.layer + 1][a]

TierDownsample == _l0_l_downsamples[Read.layer + 1]

\* levelToTierDownsample of the served level, as the fraction <<n, d>> that
\* the code divides.
R == <<_l_z_downsamples[call.level + 1].p, _l_z_downsamples[call.level + 1].d>>

\* The read origin in the pixel space of the tier read from, rounded down.
ReadOriginFloor(a) == Floor(Read.location[a], TierDownsample)

\* The tile's level origin scaled to the tier, less the top/left overlap,
\* rounded up: ceil(tileSize * t * r - overlapBefore).
TierOriginCeil(a) ==
    Ceil(_z_from_t(T(a)) * R[1] - OverlapBefore(a) * R[2], R[2])

----------------------------------------------------------------------------
\* C1: once constructed, the level hierarchy is the ceiling-halving chain: the
\* finest level is the source's full-resolution size, each coarser level is
\* the componentwise ceiling of half the next finer one, the coarsest level
\* is (1, 1); and the construction loop terminates.
LevelChain ==
    /\ _levels = Len(_z_dimensions)
    /\ _levels >= 1
    /\ _z_dimensions[_levels] = osr.layer_dimensions[1]
    /\ _z_dimensions[1] = <<1, 1>>
    /\ \A i \in 1.._levels - 1 : \A a \in 1..2 :
          /\ 2 * _z_dimensions[i][a] >= _z_dimensions[i + 1][a]
          /\ 2 * (_z_dimensions[i][a] - 1) < _z_dimensions[i + 1][a]

C1_LevelChain == [](Ready => LevelChain) /\ <>Ready

\* A constructed hierarchy of three levels or more whose finest level is odd
\* on one axis and even on the other.
C1_Witness ==
    /\ Ready
    /\ _levels >= 3
    /\ _z_dimensions[_levels] = <<3, 4>>

\* C2: get_tile raises 'Invalid level' exactly for a level outside
\* [0, level_count), 'Invalid address' exactly for a valid level with a column
\* or row outside that level's tile grid, makes no read_region call when it
\* raises, and serves every other request.
C2_Validation ==
    (Ready /\ call.op = "get_tile") =>
        LET bad_level == call.level < 0 \/ call.level >= _levels
            bad_address == \E a \in 1..2 : T(a) < 0 \/ T(a) >= Grid(a)
        IN  /\ bad_level => result.status = "Invalid level"
            /\ (~bad_level /\ bad_address) => result.status = "Invalid address"
            /\ (~bad_level /\ ~bad_address) =>
                  result.status = "ok" /\ Len(result.read_region) = 1
            /\ result.status # "ok" => result.read_region = << >>

\* A request for the column just past the grid of a valid level was rejected.
C2_Witness ==
    /\ Ready /\ call.op = "get_tile"
    /\ call.level = _levels - 1
    /\ T(1) = Grid(1) /\ T(2) = 0
    /\ result.status = "Invalid address"
    /\ result.read_region = << >>

\* C3: on each axis the final size of a served tile is
\* min(tileSize, levelDimension - tileSize * t) + overlapBefore + overlapAfter.
C3_FinalSize ==
    Served =>
        \A a \in 1..2 :
            FinalSize(a) =
                Min(_z_t_downsample, LevelDim(a) - _z_t_downsample * T(a))
                + OverlapBefore(a) + OverlapAfter(a)

\* An interior tile on both axes: it has overlap on all four sides.
C3_Witness ==
    /\ Served
    /\ _z_overlap > 0
    /\ \A a \in 1..2 : T(a) # 0 /\ T(a) # Grid(a) - 1
    /\ FinalSize(1) = _z_t_downsample + 2 * _z_overlap
    /\ FinalSize(2) = _z_t_downsample + 2 * _z_overlap

\* C4: at every level and on each axis, the grid that level_tiles reports
\* is ceil(levelDimension / tileSize), and the cores of the tiles 0..grid-1
\* are non-empty, lie inside [0, levelDimension) and every pixel of the level
\* is in exactly one of them.
C4_SeamlessCores ==
    (Ready /\ call.op = "level_tiles") =>
        \A i \in 1.._levels : \A a \in 1..2 :
            LET z_lim == _z_dimensions[i][a]
                grid  == result.value[i][a]
            IN  /\ grid * _z_t_downsample >= z_lim
                /\ (grid - 1) * _z_t_downsample < z_lim
                /\ \A t \in 0..grid - 1 :
                      /\ z_core(t, z_lim) >= 1
                      /\ _z_from_t(t) + z_core(t, z_lim) <= z_lim
                /\ \A p \in 0..z_lim - 1 :
                      Cardinality({ t \in 0..grid - 1 :
                                      /\ _z_from_t(t) <= p
                                      /\ p < _z_from_t(t) + z_core(t, z_lim) }) = 1

\* level_tiles reported a level of several tiles whose dimension is not a
\* multiple of the tile size on one axis and is one on the other.
C4_Witness ==
    /\ Ready /\ call.op = "level_tiles"
    /\ _z_t_downsample = 2
    /\ _z_dimensions[_levels] = <<3, 4>>
    /\ result.value[_levels] = <<2, 2>>

\* C5: the read never under-reads: on each axis every tier pixel p of
\* [0, tierDimension) that lies in the tile's intended area
\* [(tileSize*t - overlapBefore) * r, (tileSize*t - overlapBefore + finalSize) * r)
\* is inside the rectangle read.
C5_NoUnderRead ==
    Served =>
        \A a \in 1..2 : \A p \in 0..TierDim(a) - 1 :
            LET lo == (_z_from_t(T(a)) - OverlapBefore(a)) * R[1]
                hi == (_z_from_t(T(a)) - OverlapBefore(a) + FinalSize(a)) * R[1]
            IN  (lo <= p * R[2] /\ p * R[2] < hi) =>
                    /\ ReadOriginFloor(a) <= p
                    /\ p < ReadOriginFloor(a) + Read.size[a]

\* C6, as claimed: the read stays inside the tier for every overlap >= 0: on
\* each axis the read location is >= 0 and the read origin in tier space,
\* rounded down, plus the read size is at most the tier's dimension.
C6_ReadInsideTier ==
    Served =>
        \A a \in 1..2 :
            /\ Read.location[a] >= 0
            /\ ReadOriginFloor(a) + Read.size[a] <= TierDim(a)

\* C6, amended: the far edge is respected for every overlap, the near edge
\* (read location >= 0) when the overlap is at most the tile size.
C6_ReadInsideTierIfOverlapFits ==
    Served =>
        \A a \in 1..2 :
            /\ _z_overlap <= _z_t_downsample => Read.location[a] >= 0
            /\ ReadOriginFloor(a) + Read.size[a] <= TierDim(a)

\* A served tile with overlap before it, on a level coarser than its tier,
\* whose read was clipped at the far edge of the tier on both axes.
C6_Witness ==
    /\ Served
    /\ _z_overlap > 0 /\ _z_overlap <= _z_t_downsample
    /\ R[1] > R[2]
    /\ \A a \in 1..2 :
          /\ OverlapBefore(a) > 0
          /\ Read.size[a] < Ceil(R[1] * FinalSize(a), R[2])
          /\ ReadOriginFloor(a) + Read.size[a] = TierDim(a)

\* C7, as claimed: on each axis the read size is at least the final size of
\* the tile, and so at least 1.
C7_ReadSizeAtLeastFinalSize ==
    Served => \A a \in 1..2 : Read.size[a] >= FinalSize(a) /\ Read.size[a] >= 1

\* C7, amended: on each axis the read size is at least the final size of the
\* tile unless the read was clipped at the far edge of the tier: it is at
\* least the smaller of the final size and the tier pixels left after
\* ceil(tileSize * t * r - overlapBefore).
C7_ReadSizeUnlessClipped ==
    Served =>
        \A a \in 1..2 :
            Read.size[a] >= Min(FinalSize(a), TierDim(a) - TierOriginCeil(a))

\* A served tile on a level 4/3 as coarse as its tier, read larger than its
\* final size and scaled down.
C7_Witness ==
    /\ Served
    /\ R = <<4, 3>>
    /\ \A a \in 1..2 : Read.size[a] > FinalSize(a)
    /\ result.thumbnail = <<result.z_size>>

\* C9: the read origin is the tile's level origin less its top/left overlap,
\* then scaled: floor((tileSize*t - overlapBefore) * r * tierDownsample).
C9_OverlapThenScale ==
    Served =>
        \A a \in 1..2 :
            Read.location[a] =
                Floor((_z_from_t(T(a)) - OverlapBefore(a)) * R[1] * TierDownsample,
                      R[2])

\* C10, as claimed: for every overlap >= 0, on each axis the extent of a
\* served tile, overlap included, stays inside its level.
C10_ExtentInsideLevel ==
    Served =>
        \A a \in 1..2 :
            /\ _z_from_t(T(a)) - OverlapBefore(a) >= 0
            /\ _z_from_t(T(a)) - OverlapBefore(a) + FinalSize(a) <= LevelDim(a)

\* The core of the last tile of the served level on axis a.
LastCore(a) == z_core(Grid(a) - 1, LevelDim(a))

\* C10, amended: on each axis the extent of a served tile, overlap included,
\* stays inside its level when the row or column is a single tile or the
\* overlap is at most the core of its last tile.
C10_ExtentInsideLevelIfOverlapFits ==
    Served =>
        \A a \in 1..2 :
            (Grid(a) = 1 \/ _z_overlap <= LastCore(a)) =>
                /\ _z_from_t(T(a)) - OverlapBefore(a) >= 0
                /\ _z_from_t(T(a)) - OverlapBefore(a) + FinalSize(a)
                       <= LevelDim(a)

\* A served tile next to the last one on both axes, with an overlap as large
\* as the last core: its extent ends exactly at the level's edge.
C10_Witness ==
    /\ Served
    /\ _z_overlap > 0
    /\ \A a \in 1..2 :
          /\ Grid(a) >= 2 /\ T(a) = Grid(a) - 2
          /\ _z_overlap = LastCore(a)
          /\ _z_from_t(T(a)) - OverlapBefore(a) + FinalSize(a) = LevelDim(a)

\* Reader r holds what a get_tile returned or raised.
Answered(r) == readers[r].pc = "done" /\ readers[r].op = "get_tile"

\* What a get_tile of these arguments returns when nothing else runs.
Alone(level, address) ==
    LET info == _get_tile_info(level, address)
    IN  IF info.status # "ok"
        THEN [status |-> info.status, read_region |-> << >>, thumbnail |-> << >>]
        ELSE [status |-> "ok", read_region |-> <<info.args>>,
              thumbnail |-> IF info.args.size # info.z_size
                            THEN <<info.z_size>> ELSE << >>,
              z_size |-> info.z_size]

\* C8: once constructed, after any interleaving of the steps of get_tile
\* calls, served or rejected, and of property reads and get_dzi calls by
\* concurrent readers, the tile size, the overlap, the level dimensions, the
\* tile grids, the preferred layers and the downsamples are what construction
\* made them; every get_tile returns what it returns when it runs alone; and
\* two get_tile calls of the same level and address return the same read
\* arguments and final size, whatever ran before or during either.
C8_PlanImmutable ==
    Ready =>
        /\ self = built
        /\ _z_t_downsample = built[1] /\ _z_overlap = built[2]
        /\ _l_dimensions = osr.layer_dimensions
        /\ _z_dimensions = Reverse(z_dimensions)
        /\ \A r \in Readers :
              Answered(r) =>
                  readers[r].result = Alone(readers[r].level, readers[r].address)
        /\ \A r \in Readers : \A q \in Readers :
              ( /\ Answered(r) /\ Answered(q)
                /\ readers[r].level = readers[q].level
                /\ readers[r].address = readers[q].address )
              => readers[r].result = readers[q].result

\* Reader a was served a tile with top/left overlap by a call that returned
\* while reader b was inside a get_tile of another tile, and b is still
\* inside it.
C8_Witness ==
    /\ Ready
    /\ _z_overlap > 0
    /\ Answered("a")
    /\ readers["a"].result.status = "ok"
    /\ readers["a"].overlapped
    /\ readers["a"].address[1] # 0
    /\ readers["b"].pc = "sized"
    /\ readers["b"].address # readers["a"].address

====
